---- MODULE Spec2Model ----
(***************************************************************************)
(* Irving's stable-roommates engine of stable-matching/stable_roommates.py *)
(* as a state machine.  A participant is the integer p that the code       *)
(* writes as the dict key str(p); the result list is a function on the     *)
(* positions 0..n-1, as format_output fills it.                            *)
(***************************************************************************)
EXTENDS Integers, Sequences, FiniteSets, TLC

VARIABLES
    preferences,         \* the argument of stable_roommates
    pc,                  \* position in stable_roommates / phase_1
    valid_preferences,   \* third value returned by validate_input
    person_added,        \* second value returned by validate_input
    ranks,               \* person -> (person -> rank index)
    reduced_preferences, \* p1_reduced_preferences, then p2_preferences
    curr_cycle,          \* curr_cycle of phase_2_reduce; <<>> before Phase 2
    holds,               \* holds of the running phase_1 call
    curr_holds,          \* next list index of every proposer
    proposed_set,        \* proposed_set of the running phase_1 call
    people,              \* the part of the shuffled list not yet visited
    proposer,            \* locals of phase_1
    proposee,
    proposee_hold,
    result,              \* what stable_roommates returns
    prev_result,         \* what the call before this one returned
    p1_holds,            \* p1_holds, then curr_holds of phase_2_reduce
    input_pair_research, \* what pair_research.py reads from stdin
    stable_result,       \* locals of pair_research.py's main block
    is_fully_stable,
    output_dict,
    unpaired_undirected_graph,
    mwm_result,
    main_pc,             \* position in pair_research.py's main block
    report_matching,     \* result['matching'] of hacky_compute_affinities.py
    pairs,               \* locals of hacky_compute_affinities.py
    odd_uuid,
    max_pair,
    output,
    report_pc            \* position in hacky_compute_affinities.py

\* the state of pair_research.py's main block
main_vars == <<input_pair_research, stable_result, is_fully_stable, output_dict,
               unpaired_undirected_graph, mwm_result, main_pc>>

\* the state of the report of hacky_compute_affinities.py
report_vars == <<report_matching, pairs, odd_uuid, max_pair, output, report_pc>>

vars == <<main_vars, report_vars, preferences, pc, valid_preferences, person_added, ranks,
          reduced_preferences, curr_cycle, holds, curr_holds, proposed_set,
          people, proposer, proposee, proposee_hold, result, prev_result,
          p1_holds>>

\* ------------------------------------------------------------------ bounds

\* every complete preference matrix with at most MaxN participants is an input
MaxN == 4

\* every matrix validate_input accepts with at most MaxRepeatN participants,
\* short rows and repeated entries included, is an input
MaxRepeatN == 3

\* every matrix of at most MaxAnyN rows, and every complete matrix of
\* MaxAnyN + 1 rows with one row replaced, is an input, whatever validate_input
\* says of it
MaxAnyN == 2

\* ------------------------------------------------------------------ values

\* Python's None as a hold, and a local that is not bound yet
None == 0
Unbound == -1

Range(s) == {s[i] : i \in 1..Len(s)}

RECURSIVE SetToAscSeq(_)
\* list(to_add): a set of small integers is iterated in ascending order
SetToAscSeq(S) ==
    IF S = {} THEN <<>>
    ELSE LET lo == CHOOSE x \in S : \A y \in S : x <= y
         IN  <<lo>> \o SetToAscSeq(S \ {lo})

RECURSIVE Perms(_)
Perms(S) ==
    IF S = {} THEN {<<>>}
    ELSE UNION {{<<x>> \o t : t \in Perms(S \ {x})} : x \in S}

RECURSIVE RowsUpTo(_, _)
\* every list of at most k entries drawn from S
RowsUpTo(S, k) ==
    IF k = 0 THEN {<<>>}
    ELSE LET shorter == RowsUpTo(S, k - 1)
         IN  shorter \cup {Append(r, x) : r \in {t \in shorter : Len(t) = k - 1}, x \in S}

RECURSIVE Matrices(_, _, _)
\* every matrix of n rows whose row i is drawn from rowsOf[i]; built from row k on
Matrices(rowsOf, n, k) ==
    IF k > n THEN {<<>>}
    ELSE {<<r>> \o rest : r \in rowsOf[k], rest \in Matrices(rowsOf, n, k + 1)}

\* complete matrices: every row a permutation of the other participants
Complete(n) == Matrices([i \in 1..n |-> Perms((1..n) \ {i})], n, 1)

\* rows of any length up to n-1 over the other participants, repeats allowed
Accepted(n) == Matrices([i \in 1..n |-> RowsUpTo((1..n) \ {i}, n - 1)], n, 1)

\* ------------------------------------------------------------------ fixtures

paper_matching_6 ==
    << <<4, 6, 2, 5, 3>>, <<6, 3, 5, 1, 4>>, <<4, 5, 1, 6, 2>>,
       <<2, 6, 5, 1, 3>>, <<4, 2, 3, 6, 1>>, <<5, 1, 4, 2, 3>> >>

paper_no_matching_4 ==
    << <<2, 3, 4>>, <<3, 1, 4>>, <<1, 2, 4>>, <<1, 2, 3>> >>

paper_no_matching_6 ==
    << <<2, 6, 4, 3, 5>>, <<3, 5, 1, 6, 4>>, <<1, 6, 2, 5, 4>>,
       <<5, 2, 3, 6, 1>>, <<6, 1, 3, 4, 2>>, <<4, 2, 5, 1, 3>> >>

wiki_matching_6 ==
    << <<3, 4, 2, 6, 5>>, <<6, 5, 4, 1, 3>>, <<2, 4, 5, 1, 6>>,
       <<5, 2, 3, 6, 1>>, <<3, 1, 2, 4, 6>>, <<5, 1, 3, 4, 2>> >>

custom_no_matching_empty == <<>>

custom_no_matching_1 == << <<>> >>

custom_matching_2 == << <<2>>, <<1>> >>

custom_matching_3 == << <<3, 2>>, <<3, 1>>, <<1, 2>> >>

\* ------------------------------------------------------------------ validate_input

\* validate_input with the length test of line 382 off by one
is_valid_short_rows(preference_matrix) ==
    LET n == Len(preference_matrix)
        m == n - 1
    IN  /\ ~(n <= 1)
        /\ \A i \in 0..(n - 1) :
              LET sublist == preference_matrix[i + 1]
              IN  /\ ~(Len(sublist) >= m)
                  /\ \A k \in 1..Len(sublist) :
                        LET j == sublist[k]
                        IN  ~(j < 1 \/ j > n \/ j = i + 1)

\* the first value returned by validate_input, for a list of lists of integers
is_valid(preference_matrix) ==
    LET n == Len(preference_matrix)
        m == n - 1
    IN  /\ ~(n <= 1)
        /\ \A i \in 0..(n - 1) :
              LET sublist == preference_matrix[i + 1]
              IN  /\ ~(Len(sublist) > m)
                  /\ \A k \in 1..Len(sublist) :
                        LET j == sublist[k]
                        IN  ~(j < 1 \/ j > n \/ j = i + 1)

\* the third value returned by validate_input on a valid matrix
output_matrix(preference_matrix) ==
    LET n == Len(preference_matrix)
        m == n - 1
        added == n % 2 # 0
        full_set == 1..n
        filled(i) ==
            LET row == preference_matrix[i + 1]
                to_add == (full_set \ Range(row)) \ {i + 1}
                completed == IF Len(row) # m THEN row \o SetToAscSeq(to_add) ELSE row
            IN  IF added THEN Append(completed, n + 1) ELSE completed
        rows == [i \in 1..n |-> filled(i - 1)]
    IN  IF added THEN Append(rows, SetToAscSeq(1..n)) ELSE rows

\* ranks[person] = dict(zip(value, range(len(value)))): a repeated entry keeps
\* its last index, an entry that is not listed has no key
RanksOf(matrix) ==
    [p \in 1..Len(matrix) |->
        [q \in Range(matrix[p]) |->
            (CHOOSE i \in 1..Len(matrix[p]) :
                /\ matrix[p][i] = q
                /\ \A k \in 1..Len(matrix[p]) : matrix[p][k] = q => k <= i) - 1]]

\* ------------------------------------------------------------------ phase_1_reduce

RemoveAt(s, i) == SubSeq(s, 1, i - 1) \o SubSeq(s, i + 1, Len(s))

RECURSIVE reduce_row(_, _, _, _, _)
\* the while loop of phase_1_reduce over one proposee's list, from index i on
\* (i counts from 1 here); ok is FALSE when a rank lookup raises KeyError
reduce_row(row, i, proposee_, rk, h) ==
    IF ~(i <= Len(row)) THEN [ok |-> TRUE, row |-> row]
    ELSE LET curr_proposee_preference == row[i]
         IN  IF curr_proposee_preference = h[proposee_]
             THEN reduce_row(SubSeq(row, 1, i), i + 1, proposee_, rk, h)
             ELSE IF \/ h[curr_proposee_preference] \notin DOMAIN rk[curr_proposee_preference]
                     \/ proposee_ \notin DOMAIN rk[curr_proposee_preference]
                  THEN [ok |-> FALSE, row |-> row]
                  ELSE IF rk[curr_proposee_preference][h[curr_proposee_preference]]
                            < rk[curr_proposee_preference][proposee_]
                       THEN reduce_row(RemoveAt(row, i), i, proposee_, rk, h)
                       ELSE reduce_row(row, i + 1, proposee_, rk, h)

\* phase_1_reduce(preferences, ranks, holds): every list is reduced on its own
phase_1_reduce(prefs, rk, h) ==
    LET rows == [p \in DOMAIN prefs |-> reduce_row(prefs[p], 1, p, rk, h)]
    IN  [ok |-> \A p \in DOMAIN prefs : rows[p].ok,
         prefs |-> [p \in DOMAIN prefs |-> rows[p].row]]

\* ------------------------------------------------------------------ find_all_or_nothing_cycle

Index(s, x) == CHOOSE i \in 1..Len(s) : s[i] = x /\ \A k \in 1..(i - 1) : s[k] # x

RECURSIVE create_cycle(_, _, _)
\* the "create cycle" loop from the person curr on, with p gathered so far;
\* ok is FALSE when [1] or [-1] raises IndexError
create_cycle(prefs, p, curr) ==
    IF curr \in Range(p)
    THEN [ok |-> TRUE, cycle |-> SubSeq(p, Index(p, curr), Len(p))]
    ELSE IF Len(prefs[curr]) < 2 THEN [ok |-> FALSE, cycle |-> <<>>]
    ELSE LET q_last == prefs[curr][2]
         IN  IF Len(prefs[q_last]) = 0 THEN [ok |-> FALSE, cycle |-> <<>>]
             ELSE create_cycle(prefs, Append(p, curr), prefs[q_last][Len(prefs[q_last])])

\* the persons the search loop can stop at: the first key of the dict, in its
\* iteration order, whose list has more than one entry
CycleStarts(prefs) == {person \in DOMAIN prefs : Len(prefs[person]) > 1}

\* find_all_or_nothing_cycle started at curr
find_all_or_nothing_cycle(prefs, curr) == create_cycle(prefs, <<>>, curr)

\* ------------------------------------------------------------------ verification

\* verify_matching that accepts whatever it is given
verify_matching_skipped(matching) == TRUE

verify_matching(matching) ==
    LET person_set == DOMAIN matching
        matching_set == {matching[person] : person \in DOMAIN matching}
    IN  /\ person_set = matching_set
        /\ \A person \in DOMAIN matching : person = matching[matching[person]]

\* the pairs verify_stability looks at
StabilityPairs(matching) ==
    {xy \in (DOMAIN matching) \X (DOMAIN matching) :
        ~(xy[1] = xy[2] \/ xy[2] = matching[xy[1]])}

\* a rank lookup of the pair raises KeyError
PairKeyError(matching, rk, x, y) ==
    \/ matching[x] \notin DOMAIN rk[x]
    \/ matching[y] \notin DOMAIN rk[y]
    \/ y \notin DOMAIN rk[x]
    \/ x \notin DOMAIN rk[y]

\* the pair makes verify_stability return False
PairUnstable(matching, rk, x, y) ==
    /\ ~PairKeyError(matching, rk, x, y)
    /\ rk[x][y] < rk[x][matching[x]]
    /\ rk[y][x] < rk[y][matching[y]]

\* verify_stability with "or" for the "and" of line 483
verify_stability_one_sided(matching, rk) ==
    LET checked == StabilityPairs(matching)
    IN  IF \E xy \in checked : PairKeyError(matching, rk, xy[1], xy[2])
        THEN {"KeyError"}
        ELSE IF \E xy \in checked :
                   \/ rk[xy[1]][xy[2]] < rk[xy[1]][matching[xy[1]]]
                   \/ rk[xy[2]][xy[1]] < rk[xy[2]][matching[xy[2]]]
             THEN {"False"}
             ELSE {"True"}

\* verify_stability that accepts whatever it is given
verify_stability_skipped(matching, rk) == {"True"}

\* what verify_stability(matching, ranks) can do: the first pair, in the
\* iteration order of the dict, that raises or is unstable decides
verify_stability(matching, rk) ==
    LET checked == StabilityPairs(matching)
        raises == \E xy \in checked : PairKeyError(matching, rk, xy[1], xy[2])
        unstable == \E xy \in checked : PairUnstable(matching, rk, xy[1], xy[2])
    IN  (IF raises THEN {"KeyError"} ELSE {})
            \cup (IF unstable THEN {"False"} ELSE {})
            \cup (IF ~raises /\ ~unstable THEN {"True"} ELSE {})

\* ------------------------------------------------------------------ output

\* lines 75-80 without line 80: the added person is deleted and its match
\* keeps the added person's number
remove_added_unmarked(matching) ==
    LET person_str == Cardinality(DOMAIN matching)
    IN  [person \in (DOMAIN matching) \ {person_str} |-> matching[person]]

\* lines 75-80 / 120-125: the added person is deleted, its match gets '-1'
remove_added(matching) ==
    LET person_str == Cardinality(DOMAIN matching)
        person_added_match == matching[person_str]
    IN  [person \in (DOMAIN matching) \ {person_str} |->
            IF person = person_added_match THEN -1 ELSE matching[person]]

\* format_output: output[int(key) - 1] = int(value)
format_output(matching) ==
    LET n == Cardinality(DOMAIN matching)
    IN  [int_key \in 0..(n - 1) |->
            IF int_key + 1 \in DOMAIN matching THEN matching[int_key + 1] ELSE 0]

Pending == [kind |-> "pending", why |-> "", list |-> <<>>]
ReturnNone(why) == [kind |-> "None", why |-> why, list |-> <<>>]
Raise(why) == [kind |-> "error", why |-> why, list |-> <<>>]
ReturnList(l) == [kind |-> "list", why |-> "", list |-> l]

\* lines 69-93 / 114-138 with the outcome v of verify_stability
verified(matching, added, v) ==
    IF verify_matching(matching)
    THEN IF v = "KeyError" THEN Raise("KeyError")
         ELSE IF v = "True"
              THEN ReturnList(format_output(IF added THEN remove_added(matching) ELSE matching))
              ELSE ReturnNone("not stable")
    ELSE ReturnNone("not valid")

\* ------------------------------------------------------------------ inputs

\* further instances with six participants
matching_6_cycle_3 ==
    << <<2, 5, 6, 4, 3>>, <<5, 1, 6, 4, 3>>, <<2, 6, 5, 1, 4>>,
       <<3, 1, 5, 6, 2>>, <<1, 3, 4, 6, 2>>, <<4, 2, 5, 3, 1>> >>

no_matching_6_empty_list ==
    << <<6, 4, 3, 5, 2>>, <<4, 5, 6, 1, 3>>, <<1, 6, 4, 2, 5>>,
       <<3, 1, 6, 5, 2>>, <<4, 6, 3, 1, 2>>, <<2, 5, 1, 4, 3>> >>

matching_6_last_entry ==
    << <<2, 5, 6, 4, 3>>, <<4, 3, 5, 6, 1>>, <<6, 5, 1, 4, 2>>,
       <<1, 2, 3, 6, 5>>, <<4, 6, 2, 3, 1>>, <<5, 3, 4, 1, 2>> >>

\* instances with five participants
matching_5 ==
    << <<3, 4, 2, 5>>, <<3, 4, 1, 5>>, <<4, 5, 2, 1>>, <<3, 5, 1, 2>>,
       <<2, 3, 1, 4>> >>

no_matching_5 ==
    << <<3, 4, 2, 5>>, <<1, 3, 4, 5>>, <<5, 1, 4, 2>>, <<1, 2, 3, 5>>,
       <<4, 2, 1, 3>> >>

\* instances with four participants and a repeated entry
repeated_4 ==
    { << <<>>, <<3>>, <<4>>, <<1, 1>> >>,
      << <<>>, <<3>>, <<4, 2>>, <<1, 1>> >>,
      << <<>>, <<3>>, <<>>, <<1, 1>> >>,
      << <<>>, <<4>>, <<2, 2, 4>>, <<2, 3, 2>> >>,
      << <<>>, <<4>>, <<4>>, <<2, 3, 2>> >>,
      << <<>>, <<1, 4, 1>>, <<4>>, <<2, 3, 2>> >>,
      << <<2, 3, 2>>, <<>>, <<4, 1, 4>>, <<3>> >> }

\* the instances beyond the enumerated families
Instances ==
    {paper_matching_6, paper_no_matching_6, wiki_matching_6, matching_6_cycle_3,
     no_matching_6_empty_list, matching_6_last_entry, matching_5, no_matching_5}
        \cup repeated_4

\* one row of a complete matrix replaced by any list of at most n + 1 entries
\* drawn from 0..n+1
OneRowAny(n) ==
    {[c EXCEPT ![i] = r] :
        c \in Complete(n), i \in 1..n, r \in RowsUpTo(0..(n + 1), n)}

\* lists of at most n entries drawn from 0..n+1 in every row
AnyRows(n) == Matrices([i \in 1..n |-> RowsUpTo(0..(n + 1), n)], n, 1)

\* the matrices stable_roommates is called with
Inputs ==
    {custom_no_matching_empty, custom_no_matching_1, custom_matching_2, custom_matching_3}
        \cup UNION {Complete(n) : n \in 2..MaxN}
        \cup UNION {Accepted(n) : n \in 2..MaxRepeatN}
        \cup UNION {AnyRows(n) : n \in 0..MaxAnyN}
        \cup OneRowAny(MaxAnyN + 1)
        \cup Instances

\* ------------------------------------------------------------------ stable_roommates

\* preferences_dict: person -> list, keyed '1'..'N'
preferences_dict == [x \in 1..Len(valid_preferences) |-> valid_preferences[x]]

\* the preferences argument of the running phase_1 call
phase_1_preferences ==
    IF curr_cycle = <<>> THEN preferences_dict ELSE reduced_preferences

\* the locals of a call that has not run yet
Fresh ==
    /\ pc = "start"
    /\ valid_preferences = <<>>
    /\ person_added = FALSE
    /\ ranks = <<>>
    /\ reduced_preferences = <<>>
    /\ curr_cycle = <<>>
    /\ holds = <<>>
    /\ p1_holds = <<>>
    /\ curr_holds = <<>>
    /\ proposed_set = {}
    /\ people = {}
    /\ proposer = Unbound
    /\ proposee = Unbound
    /\ proposee_hold = Unbound
    /\ result = Pending

\* pair_research.py is not running
\* odd_uuid = None (line 82); participants are numbered from 0
NoUuid == -1

\* the report has not run
ReportIdle ==
    /\ report_matching = <<>>
    /\ pairs = {}
    /\ odd_uuid = NoUuid
    /\ max_pair = <<>>
    /\ output = {}
    /\ report_pc = "idle"

MainIdle ==
    /\ input_pair_research = [undirected_graph |-> <<>>, n |-> 0]
    /\ stable_result = <<>>
    /\ is_fully_stable = FALSE
    /\ output_dict = <<>>
    /\ unpaired_undirected_graph = <<>>
    /\ mwm_result = <<>>
    /\ main_pc = "idle"

Init ==
    /\ preferences \in Inputs
    /\ prev_result = Pending
    /\ Fresh
    /\ MainIdle
    /\ ReportIdle

\* lines 159-172: a phase_1 call begins; the shuffled list is still unvisited
phase_1_begin(keys, counters) ==
    /\ holds' = [person \in keys |-> None]
    /\ curr_holds' = counters
    /\ proposed_set' = {}
    /\ people' = keys
    /\ proposer' = Unbound
    /\ proposee' = Unbound
    /\ proposee_hold' = Unbound
    /\ pc' = "for"

\* a return statement or an uncaught exception of stable_roommates
Finish(r) ==
    /\ result' = r
    /\ pc' = "done"

\* lines 31-47: validation, the lookup tables, and the call of phase_1
Validate ==
    /\ pc = "start"
    /\ IF ~is_valid(preferences)
       THEN /\ Finish(ReturnNone("invalid"))
            /\ UNCHANGED <<main_vars, report_vars, preferences, prev_result, p1_holds, valid_preferences, person_added, ranks,
                           reduced_preferences, curr_cycle, holds, curr_holds,
                           proposed_set, people, proposer, proposee, proposee_hold>>
       ELSE /\ valid_preferences' = output_matrix(preferences)
            /\ person_added' = (Len(preferences) % 2 # 0)
            /\ ranks' = RanksOf(valid_preferences')
            /\ phase_1_begin(1..Len(valid_preferences'),
                             [person \in 1..Len(valid_preferences') |-> 0])
            /\ UNCHANGED <<main_vars, report_vars, preferences, prev_result, p1_holds, reduced_preferences, curr_cycle, result>>

\* ------------------------------------------------------------------ phase_1

\* lines 175-176: the for loop takes the next person of the shuffled list,
\* which random.shuffle can have put in any order
ForNext ==
    /\ pc = "for"
    /\ \E person \in people :
          /\ proposer' = person
          /\ people' = people \ {person}
    /\ pc' = "chain"
    /\ UNCHANGED <<main_vars, report_vars, preferences, prev_result, p1_holds, valid_preferences, person_added, ranks,
                   reduced_preferences, curr_cycle, holds, curr_holds,
                   proposed_set, proposee, proposee_hold, result>>

\* line 181: the inner while loop has an entry left to try
CanPropose ==
    /\ pc = "chain"
    /\ curr_holds[proposer] < Len(phase_1_preferences[proposer])

\* line 183: the entry the proposer tries next
NextProposee == phase_1_preferences[proposer][curr_holds[proposer] + 1]

\* line 190 raises KeyError: a rank of the proposee is missing
RankKeyError(pe) ==
    /\ holds[pe] # None
    /\ \/ proposer \notin DOMAIN ranks[pe]
       \/ holds[pe] \notin DOMAIN ranks[pe]

\* line 190 with a proposee that takes whoever proposes
AcceptsAnyone(pe) == TRUE

\* line 190: the proposee takes the proposer
Accepts(pe) ==
    IF holds[pe] = None THEN TRUE
    ELSE IF RankKeyError(pe) THEN FALSE
    ELSE ranks[pe][proposer] < ranks[pe][holds[pe]]

\* lines 196-206 with the proposee for proposee_hold in line 206: the chain
\* goes on with the participant that has just accepted
after_inner_loop_proposee(pe, ph, ch) ==
    IF pe \notin proposed_set
    THEN /\ proposed_set' = proposed_set \cup {pe}
         /\ pc' = "for"
         /\ UNCHANGED <<proposer, result>>
    ELSE IF ch[proposer] >= Len(phase_1_preferences[proposer])
    THEN /\ pc' = "for"
         /\ UNCHANGED <<proposer, proposed_set, result>>
    ELSE /\ proposer' = pe
         /\ pc' = "chain"
         /\ UNCHANGED <<proposed_set, result>>

\* lines 196-206 after the inner loop ended with proposee pe, its former
\* hold ph, and the counters ch
after_inner_loop(pe, ph, ch) ==
    IF pe \notin proposed_set
    THEN /\ proposed_set' = proposed_set \cup {pe}
         /\ pc' = "for"
         /\ UNCHANGED <<proposer, result>>
    ELSE IF ch[proposer] >= Len(phase_1_preferences[proposer])
    THEN /\ pc' = "for"
         /\ UNCHANGED <<proposer, proposed_set, result>>
    ELSE IF ph \in DOMAIN ch
    THEN /\ proposer' = ph
         /\ pc' = "chain"
         /\ UNCHANGED <<proposed_set, result>>
    ELSE /\ Finish(Raise("KeyError"))
         /\ UNCHANGED <<proposer, proposed_set>>

\* lines 181-190, condition false: the proposee keeps its hold
ProposeRejected ==
    /\ CanPropose
    /\ LET pe == NextProposee
       IN  /\ ~RankKeyError(pe)
           /\ ~Accepts(pe)
           /\ proposee' = pe
           /\ proposee_hold' = holds[pe]
           /\ curr_holds' = [curr_holds EXCEPT ![proposer] = @ + 1]
    /\ UNCHANGED <<main_vars, report_vars, preferences, prev_result, p1_holds, pc, valid_preferences, person_added, ranks,
                   reduced_preferences, curr_cycle, holds, proposed_set, people,
                   proposer, result>>

\* lines 181-206, condition true: the proposee holds the proposer, and the
\* chain ends or goes on with the rejected hold
ProposeAccepted ==
    /\ CanPropose
    /\ LET pe == NextProposee
       IN  /\ Accepts(pe)
           /\ proposee' = pe
           /\ proposee_hold' = holds[pe]
           /\ curr_holds' = [curr_holds EXCEPT ![proposer] = @ + 1]
           /\ holds' = [holds EXCEPT ![pe] = proposer]
           /\ after_inner_loop(pe, holds[pe], curr_holds')
    /\ UNCHANGED <<main_vars, report_vars, preferences, prev_result, p1_holds, valid_preferences, person_added, ranks,
                   reduced_preferences, curr_cycle, people>>

\* line 190 raises KeyError
ProposeKeyError ==
    /\ CanPropose
    /\ RankKeyError(NextProposee)
    /\ Finish(Raise("KeyError"))
    /\ UNCHANGED <<main_vars, report_vars, preferences, prev_result, p1_holds, valid_preferences, person_added, ranks,
                   reduced_preferences, curr_cycle, holds, curr_holds,
                   proposed_set, people, proposer, proposee, proposee_hold>>

\* lines 181, 196-206: the proposer has no entry left; proposee and
\* proposee_hold are what the last proposal of this call left in them
Exhausted ==
    /\ pc = "chain"
    /\ ~(curr_holds[proposer] < Len(phase_1_preferences[proposer]))
    /\ IF proposee = Unbound
       THEN /\ Finish(Raise("UnboundLocalError"))
            /\ UNCHANGED <<proposer, proposed_set>>
       ELSE after_inner_loop(proposee, proposee_hold, curr_holds)
    /\ UNCHANGED <<main_vars, report_vars, preferences, prev_result, p1_holds, valid_preferences, person_added, ranks,
                   reduced_preferences, curr_cycle, holds, curr_holds, people,
                   proposee, proposee_hold>>

\* phase_1 returns holds: the for loop is over
phase_1_returns ==
    /\ pc = "for"
    /\ people = {}

\* ------------------------------------------------------------------ after Phase 1

\* lines 50-54: someone holds no proposal
P1NotAllHeld ==
    /\ phase_1_returns
    /\ curr_cycle = <<>>
    /\ \E hold \in DOMAIN holds : holds[hold] = None
    /\ Finish(ReturnNone("phase 1"))
    /\ p1_holds' = holds
    /\ UNCHANGED <<main_vars, report_vars, preferences, prev_result, valid_preferences, person_added, ranks,
                   reduced_preferences, curr_cycle, holds, curr_holds,
                   proposed_set, people, proposer, proposee, proposee_hold>>

\* line 57: the Phase-1 reduction
P1Reduce ==
    /\ phase_1_returns
    /\ curr_cycle = <<>>
    /\ \A hold \in DOMAIN holds : holds[hold] # None
    /\ LET reduced == phase_1_reduce(preferences_dict, ranks, holds)
       IN  IF reduced.ok
           THEN /\ reduced_preferences' = reduced.prefs
                /\ pc' = "reduced"
                /\ UNCHANGED result
           ELSE /\ Finish(Raise("KeyError"))
                /\ UNCHANGED reduced_preferences
    /\ p1_holds' = holds
    /\ UNCHANGED <<main_vars, report_vars, preferences, prev_result, valid_preferences, person_added, ranks,
                   curr_cycle, holds, curr_holds, proposed_set, people,
                   proposer, proposee, proposee_hold>>

\* lines 61-65
p1_halt ==
    \A person \in DOMAIN reduced_preferences :
        ~(Len(reduced_preferences[person]) > 1)

\* lines 67-93: every list has at most one entry; verify and return
P1Halt ==
    /\ pc = "reduced"
    /\ p1_halt
    /\ \E v \in verify_stability(holds, ranks) :
          Finish(verified(holds, person_added, v))
    /\ UNCHANGED <<main_vars, report_vars, preferences, prev_result, p1_holds, valid_preferences, person_added, ranks,
                   reduced_preferences, curr_cycle, holds, curr_holds,
                   proposed_set, people, proposer, proposee, proposee_hold>>

\* curr_preferences that sends nobody past the first entry
curr_preferences_first(cycle) ==
    [person \in DOMAIN reduced_preferences |-> 0]

\* lines 316-324: curr_preferences of one pass of phase_2_reduce
curr_preferences(cycle) ==
    [person \in DOMAIN reduced_preferences |->
        IF person \in Range(cycle) THEN 1 ELSE 0]

\* lines 96-109 and 311-324: the first cycle is sought; without one, or with
\* one of three persons, the result is None, otherwise phase_2_reduce begins
FindCycle ==
    /\ pc = "reduced"
    /\ ~p1_halt
    /\ \E curr \in CycleStarts(reduced_preferences) :
          LET found == find_all_or_nothing_cycle(reduced_preferences, curr)
          IN  IF ~found.ok
              THEN /\ Finish(Raise("IndexError"))
                   /\ UNCHANGED <<curr_cycle, holds, curr_holds, proposed_set,
                                  people, proposer, proposee, proposee_hold>>
              ELSE IF Len(found.cycle) = 3
              THEN /\ Finish(ReturnNone("cycle of 3"))
                   /\ UNCHANGED <<curr_cycle, holds, curr_holds, proposed_set,
                                  people, proposer, proposee, proposee_hold>>
              ELSE /\ curr_cycle' = found.cycle
                   /\ phase_1_begin(DOMAIN reduced_preferences,
                                    curr_preferences(found.cycle))
                   /\ UNCHANGED result
    /\ UNCHANGED <<main_vars, report_vars, preferences, prev_result, p1_holds, valid_preferences, person_added, ranks,
                   reduced_preferences>>

\* ------------------------------------------------------------------ phase_2_reduce

\* lines 324-327 and 315-324: a pass ends with the reduction and the search
\* for the next cycle; with a cycle the next pass begins, without one
\* phase_2_reduce returns curr_holds
P2Pass ==
    /\ phase_1_returns
    /\ curr_cycle # <<>>
    /\ LET reduced == phase_1_reduce(reduced_preferences, ranks, holds)
       IN  IF ~reduced.ok
           THEN /\ Finish(Raise("KeyError"))
                /\ UNCHANGED <<reduced_preferences, curr_cycle, holds, curr_holds,
                               proposed_set, people, proposer, proposee,
                               proposee_hold>>
           ELSE /\ reduced_preferences' = reduced.prefs
                /\ IF CycleStarts(reduced.prefs) = {}
                   THEN /\ pc' = "final"
                        /\ UNCHANGED <<curr_cycle, holds, curr_holds, proposed_set,
                                       people, proposer, proposee, proposee_hold,
                                       result>>
                   ELSE \E curr \in CycleStarts(reduced.prefs) :
                          LET found == find_all_or_nothing_cycle(reduced.prefs, curr)
                          IN  IF ~found.ok
                              THEN /\ Finish(Raise("IndexError"))
                                   /\ UNCHANGED <<curr_cycle, holds, curr_holds,
                                                  proposed_set, people, proposer,
                                                  proposee, proposee_hold>>
                              ELSE /\ curr_cycle' = found.cycle
                                   /\ phase_1_begin(DOMAIN reduced.prefs,
                                                    curr_preferences(found.cycle))
                                   /\ UNCHANGED result
    /\ p1_holds' = holds
    /\ UNCHANGED <<main_vars, report_vars, preferences, prev_result, valid_preferences, person_added, ranks>>

\* lines 112-142: final_holds is verified and returned
P2Verify ==
    /\ pc = "final"
    /\ \E v \in verify_stability(holds, ranks) :
          Finish(verified(holds, person_added, v))
    /\ UNCHANGED <<main_vars, report_vars, preferences, prev_result, p1_holds, valid_preferences, person_added, ranks,
                   reduced_preferences, curr_cycle, holds, curr_holds,
                   proposed_set, people, proposer, proposee, proposee_hold>>

\* stable_roommates is called once more with the same matrix; its shuffles
\* are new
CallAgain ==
    /\ pc = "done"
    /\ prev_result = Pending
    /\ prev_result' = result
    /\ pc' = "start"
    /\ valid_preferences' = <<>>
    /\ person_added' = FALSE
    /\ ranks' = <<>>
    /\ reduced_preferences' = <<>>
    /\ curr_cycle' = <<>>
    /\ holds' = <<>>
    /\ p1_holds' = <<>>
    /\ curr_holds' = <<>>
    /\ proposed_set' = {}
    /\ people' = {}
    /\ proposer' = Unbound
    /\ proposee' = Unbound
    /\ proposee_hold' = Unbound
    /\ result' = Pending
    /\ UNCHANGED <<main_vars, report_vars, preferences>>

Next ==
    \/ Validate
    \/ ForNext
    \/ ProposeRejected
    \/ ProposeAccepted
    \/ ProposeKeyError
    \/ Exhausted
    \/ P1NotAllHeld
    \/ P1Reduce
    \/ P1Halt
    \/ FindCycle
    \/ P2Pass
    \/ P2Verify

Spec == Init /\ [][Next]_vars

\* the program runs on until it returns or raises
FairSpec == Spec /\ WF_vars(Next)

\* two calls with the same matrix
NextTwice == Next \/ CallAgain

SpecTwice == Init /\ [][NextTwice]_vars

\* ------------------------------------------------------------------ pair_research.py

\* complete graphs of 2..MaxParticipants participants are inputs
MaxParticipants == 3

\* edge weights range over -MaxWeight..MaxWeight
MaxWeight == 1

Weights == (0 - MaxWeight)..MaxWeight

\* the unordered pairs of 0..n-1, and the k-th of them in list order
PairsOf(n) == {p \in (0..(n - 1)) \X (0..(n - 1)) : p[1] < p[2]}

PairBefore(p, q) == p[1] < q[1] \/ (p[1] = q[1] /\ p[2] < q[2])

PairAt(n, k) ==
    CHOOSE p \in PairsOf(n) :
        Cardinality({q \in PairsOf(n) : PairBefore(q, p)}) = k - 1

\* undirected_graph: a list of edges [from, to, weight], one for every
\* unordered pair of participants
CompleteGraphs(n) ==
    LET m == Cardinality(PairsOf(n))
    IN  {[k \in 1..m |-> <<PairAt(n, k)[1], PairAt(n, k)[2], w[k]>>] :
            w \in [1..m -> Weights]}

\* graphs of six participants: one weight for the edge 2-5, one for the other
\* edges at 2 or 5, one for the rest
SixGraphs ==
    {[k \in 1..15 |->
        LET p == PairAt(6, k)
        IN  <<p[1], p[2],
              IF p = <<2, 5>> THEN a
              ELSE IF p[1] \in {2, 5} \/ p[2] \in {2, 5} THEN b ELSE c>>] :
        a \in Weights, b \in Weights, c \in Weights}

MainInputs ==
    UNION {{[undirected_graph |-> g, n |-> n] : g \in CompleteGraphs(n)} :
               n \in 2..MaxParticipants}
        \cup {[undirected_graph |-> g, n |-> 6] : g \in SixGraphs}

RECURSIVE MatchingsOf(_, _)
\* every way to pair members of S along the pairs of E off, -1 for the rest
MatchingsOf(S, E) ==
    IF S = {} THEN {<<>>}
    ELSE LET a == CHOOSE x \in S : \A y \in S : x <= y
         IN  {(a :> -1) @@ m : m \in MatchingsOf(S \ {a}, E)}
                \cup UNION {{(a :> b) @@ (b :> a) @@ m :
                                m \in MatchingsOf(S \ {a, b}, E)} :
                            b \in {y \in S \ {a} : <<a, y>> \in E \/ <<y, a>> \in E}}

RECURSIVE matched_weight(_, _, _)
\* the weight of the first k edges of graph that the matching m uses
matched_weight(graph, m, k) ==
    IF k = 0 THEN 0
    ELSE matched_weight(graph, m, k - 1)
            + (IF m[graph[k][1]] = graph[k][2] THEN graph[k][3] ELSE 0)

\* maxWeightMatching(graph): the lists, one entry for each of the n
\* participants, of the matchings of the greatest total weight
maxWeightMatching(graph, n) ==
    LET E == {<<graph[k][1], graph[k][2]>> : k \in 1..Len(graph)}
        all == MatchingsOf(0..(n - 1), E)
        weights == {matched_weight(graph, m, Len(graph)) : m \in all}
        greatest == CHOOSE w \in weights : \A v \in weights : v <= w
    IN  {m \in all : matched_weight(graph, m, Len(graph)) = greatest}

\* what stable_matching_wrapper can return as stable_result for n
\* participants: partners by position, -1 for those it leaves unmatched
StableResults(n) == MatchingsOf(0..(n - 1), PairsOf(n))

\* is_fully_stable: the stable result leaves no one unmatched
fully_stable(matching) == \A i \in DOMAIN matching : matching[i] # -1

\* adjust_undirected_graph that looks at from_person only
adjust_from_person(graph, matching) ==
    [edge_index \in 1..Len(graph) |->
        LET from_person == graph[edge_index][1]
            to_person == graph[edge_index][2]
        IN  IF matching[from_person] # -1
            THEN <<from_person, to_person, -10000>>
            ELSE graph[edge_index]]

\* adjust_undirected_graph with "and" for the "or" of line 34: only the edges
\* between two matched participants are forced down
adjust_both_matched(graph, matching) ==
    [edge_index \in 1..Len(graph) |->
        LET from_person == graph[edge_index][1]
            to_person == graph[edge_index][2]
        IN  IF matching[from_person] # -1 /\ matching[to_person] # -1
            THEN <<from_person, to_person, -10000>>
            ELSE graph[edge_index]]

\* adjust_undirected_graph with the weight kept on every edge
adjust_nothing(graph, matching) == graph

\* adjust_undirected_graph(graph, matching)
adjust_undirected_graph(graph, matching) ==
    [edge_index \in 1..Len(graph) |->
        LET from_person == graph[edge_index][1]
            to_person == graph[edge_index][2]
        IN  IF matching[from_person] # -1 \/ matching[to_person] # -1
            THEN <<from_person, to_person, -10000>>
            ELSE graph[edge_index]]

\* lines 66-70 with the fallback entry taken for every participant
combine_all(stable, mwm) == mwm

\* lines 66-70: output_matching
combine(stable, mwm) ==
    [matching_index \in DOMAIN stable |->
        IF stable[matching_index] = -1 THEN mwm[matching_index]
        ELSE stable[matching_index]]

\* line 60 with the fallback taken whatever the flag says
runs_fallback_always(flag) == TRUE

\* line 60: if not is_fully_stable
runs_fallback(flag) == ~flag

MainInit ==
    /\ input_pair_research \in MainInputs
    /\ stable_result = <<>>
    /\ is_fully_stable = FALSE
    /\ output_dict = <<>>
    /\ unpaired_undirected_graph = <<>>
    /\ mwm_result = <<>>
    /\ main_pc = "stable"
    /\ preferences = <<>>
    /\ prev_result = Pending
    /\ Fresh
    /\ ReportIdle

\* lines 45-47: the stable roommates matching
RunStableRoommates ==
    /\ main_pc = "stable"
    /\ \E r \in StableResults(input_pair_research.n) :
          /\ stable_result' = r
          /\ is_fully_stable' = fully_stable(r)
    /\ main_pc' = "output"
    /\ UNCHANGED <<input_pair_research, output_dict, unpaired_undirected_graph,
                   mwm_result>>

\* lines 50-57: output_dict, with the matching of the original graph
PrepareOutput ==
    /\ main_pc = "output"
    /\ \E original \in maxWeightMatching(input_pair_research.undirected_graph,
                                         input_pair_research.n) :
          output_dict' = [matching |-> stable_result,
                          fully_stable |-> is_fully_stable,
                          stable_result |-> stable_result,
                          mwm_result_original |-> original,
                          mwm_result_processed |-> <<>>]
    /\ main_pc' = IF runs_fallback(is_fully_stable) THEN "fallback" ELSE "print"
    /\ UNCHANGED <<input_pair_research, stable_result, is_fully_stable,
                   unpaired_undirected_graph, mwm_result>>

\* lines 60-73: the matching of the adjusted graph is merged in
Fallback ==
    /\ main_pc = "fallback"
    /\ unpaired_undirected_graph' =
          adjust_undirected_graph(input_pair_research.undirected_graph, stable_result)
    /\ mwm_result' \in maxWeightMatching(unpaired_undirected_graph',
                                         input_pair_research.n)
    /\ output_dict' = [output_dict EXCEPT
                          !.matching = combine(stable_result, mwm_result'),
                          !.mwm_result_processed = mwm_result']
    /\ main_pc' = "print"
    /\ UNCHANGED <<input_pair_research, stable_result, is_fully_stable>>

\* line 76
PrintOutput ==
    /\ main_pc = "print"
    /\ main_pc' = "printed"
    /\ UNCHANGED <<input_pair_research, stable_result, is_fully_stable, output_dict,
                   unpaired_undirected_graph, mwm_result>>

engine_vars == <<preferences, pc, valid_preferences, person_added, ranks,
                 reduced_preferences, curr_cycle, holds, curr_holds, proposed_set,
                 people, proposer, proposee, proposee_hold, result, prev_result,
          p1_holds>>

MainNext ==
    \/ RunStableRoommates /\ UNCHANGED <<engine_vars, report_vars>>
    \/ PrepareOutput /\ UNCHANGED <<engine_vars, report_vars>>
    \/ Fallback /\ UNCHANGED <<engine_vars, report_vars>>
    \/ PrintOutput /\ UNCHANGED <<engine_vars, report_vars>>

SpecMain == MainInit /\ [][MainNext]_vars

\* ------------------------------------------------------------------ hacky_compute_affinities.py

\* the report is built for at most MaxReportN participants
MaxReportN == 5

\* result['matching'] (line 79): what the combiner returns for n participants,
\* partners by position and -1 for the participants without one
ReportInputs == UNION {StableResults(n) : n \in 0..MaxReportN}

ReportInit ==
    /\ report_matching \in ReportInputs
    /\ pairs = {}
    /\ odd_uuid = NoUuid
    /\ max_pair = <<>>
    /\ output = {}
    /\ report_pc = "pairs"
    /\ preferences = <<>>
    /\ prev_result = Pending
    /\ Fresh
    /\ MainIdle

\* line 89: the participants without partner
odd_ones(matching) == {i \in DOMAIN matching : matching[i] = -1}

\* lines 89-91: odd_uuid after the loop is the last participant without
\* partner
last_odd(matching) ==
    IF odd_ones(matching) = {} THEN NoUuid
    ELSE CHOOSE i \in odd_ones(matching) : \A j \in odd_ones(matching) : j <= i

\* lines 93-98: a pair is added at its first member unless it is there in
\* either order
collected_pairs(matching) ==
    {<<i, matching[i]>> : i \in {k \in DOMAIN matching :
        /\ matching[k] # -1
        /\ ~(matching[k] < k /\ matching[k] \in DOMAIN matching
                /\ matching[matching[k]] = k)}}

\* lines 81-98
CollectPairs ==
    /\ report_pc = "pairs"
    /\ pairs' = collected_pairs(report_matching)
    /\ odd_uuid' = last_odd(report_matching)
    /\ report_pc' = "odd"
    /\ UNCHANGED <<report_matching, max_pair, output>>

\* lines 101-103: nobody is odd
NobodyOdd ==
    /\ report_pc = "odd"
    /\ odd_uuid = NoUuid
    /\ report_pc' = "write"
    /\ UNCHANGED <<report_matching, pairs, odd_uuid, max_pair, output>>

\* lines 103-119: the odd one joins the pair of the greatest affinity, which
\* the ratings can make any of the pairs; without a pair max_pair is None and
\* line 117 raises TypeError
GroupOfThree ==
    /\ report_pc = "odd"
    /\ odd_uuid # NoUuid
    /\ IF pairs = {}
       THEN /\ report_pc' = "raised"
            /\ UNCHANGED <<pairs, max_pair, output>>
       ELSE \E p \in pairs :
               /\ max_pair' = p
               /\ output' = {{p[1], p[2], odd_uuid}}
               /\ pairs' = pairs \ {p}
               /\ report_pc' = "write"
    /\ UNCHANGED <<report_matching, odd_uuid>>

\* lines 121-126: the pairs that are left, and the file
WritePairs ==
    /\ report_pc = "write"
    /\ output' = output \cup {{p[1], p[2]} : p \in pairs}
    /\ report_pc' = "written"
    /\ UNCHANGED <<report_matching, pairs, odd_uuid, max_pair>>

ReportNext ==
    \/ CollectPairs /\ UNCHANGED <<engine_vars, main_vars>>
    \/ NobodyOdd /\ UNCHANGED <<engine_vars, main_vars>>
    \/ GroupOfThree /\ UNCHANGED <<engine_vars, main_vars>>
    \/ WritePairs /\ UNCHANGED <<engine_vars, main_vars>>

SpecReport == ReportInit /\ [][ReportNext]_vars

\* ------------------------------------------------------------------ stability

\* the matrix validate_input hands to the phases for the given argument
Normalized(matrix) == output_matrix(matrix)

\* every row lists every other participant, so that "prefers" is defined
Ranked(matrix) ==
    \A p \in 1..Len(matrix) : Range(matrix[p]) = (1..Len(matrix)) \ {p}

\* a comes before b on the list: both are listed and every place of a is
\* ahead of every place of b
Before(list, a, b) ==
    /\ a \in Range(list)
    /\ b \in Range(list)
    /\ \A i, j \in 1..Len(list) : (list[i] = a /\ list[j] = b) => i < j

RECURSIVE PerfectMatchings(_)
\* every way to pair the members of S off
PerfectMatchings(S) ==
    IF S = {} THEN {<<>>}
    ELSE LET a == CHOOSE x \in S : \A y \in S : x <= y
         IN  UNION {{(a :> b) @@ (b :> a) @@ m : m \in PerfectMatchings(S \ {a, b})} :
                        b \in S \ {a}}

\* x and y are not partners in M and each comes before the other's partner
BlockingPair(matrix, M, x, y) ==
    /\ x # y
    /\ M[x] # y
    /\ Before(matrix[x], y, M[x])
    /\ Before(matrix[y], x, M[y])

StableMatching(matrix, M) ==
    \A x, y \in 1..Len(matrix) : ~BlockingPair(matrix, M, x, y)

AdmitsStableMatching(matrix) ==
    \E M \in PerfectMatchings(1..Len(matrix)) : StableMatching(matrix, M)

Returned == pc = "done" /\ result.kind = "list"

\* the partner the returned list r gives participant x of 1..N: position
\* x - 1 holds the partner's number, -1 stands for the added person N, and
\* the added person's partner is the participant whose entry is -1
PartnerIn(r, n, N, x) ==
    IF x <= n
    THEN (IF r[x - 1] = -1 THEN N ELSE r[x - 1])
    ELSE CHOOSE y \in 1..n : r[y - 1] = -1

Unmatched(r) == {x \in DOMAIN r : r[x] = -1}

\* ------------------------------------------------------------------ verification alone

\* lines 112-116 for any complete strict lists of an even number of
\* participants and any matching that pairs all of them off: final_holds is a parameter of the check here, not the
\* outcome of the phases
VerifyInit ==
    /\ preferences \in UNION {Complete(n) : n \in {k \in 2..MaxN : k % 2 = 0}}
    /\ valid_preferences = preferences
    /\ person_added = FALSE
    /\ ranks = RanksOf(preferences)
    /\ holds \in PerfectMatchings(1..Len(preferences))
    /\ pc = "final"
    /\ reduced_preferences = <<>>
    /\ curr_cycle = <<>>
    /\ p1_holds = <<>>
    /\ curr_holds = <<>>
    /\ proposed_set = {}
    /\ people = {}
    /\ proposer = Unbound
    /\ proposee = Unbound
    /\ proposee_hold = Unbound
    /\ result = Pending
    /\ prev_result = Pending
    /\ MainIdle
    /\ ReportIdle

VerifyNext == P2Verify

SpecVerify == VerifyInit /\ [][VerifyNext]_vars

\* ------------------------------------------------------------------ claims

\* C1: a returned matching pairs the participants one-to-one and symmetrically
\* and no two participants that are not partners both come before each
\* other's partner on the normalized lists (the unmatched participant has the
\* added person, its last entry, as partner).
C1_ReturnedMatchingStable ==
    Returned =>
        LET r == result.list
            n == Len(preferences)
            N == Len(valid_preferences)
            M == [x \in 1..N |-> PartnerIn(r, n, N, x)]
        IN  /\ DOMAIN r = 0..(n - 1)
            /\ Ranked(valid_preferences)
            /\ Cardinality(Unmatched(r)) = N - n
            /\ \A x \in 1..N : M[x] \in (1..N) \ {x}
            /\ \A x \in 1..N : M[M[x]] = x
            /\ StableMatching(valid_preferences, M)

\* a matching of six participants returned by phase_2_reduce
C1_Witness ==
    /\ Returned
    /\ curr_cycle # <<>>
    /\ Len(preferences) = 6

\* C2: when the normalized lists of a valid matrix admit a stable matching,
\* the call returns a list, whatever the shuffles.
C2_NoneIsDefinitive ==
    (/\ pc = "done"
     /\ is_valid(preferences)
     /\ Ranked(Normalized(preferences))
     /\ AdmitsStableMatching(Normalized(preferences)))
        => result.kind = "list"

\* C3: two calls with the same valid matrix, whose normalized lists are
\* complete, both return a list or both return None.
C3_OrderIndependent ==
    (/\ pc = "done"
     /\ prev_result # Pending
     /\ is_valid(preferences)
     /\ Ranked(Normalized(preferences)))
        => /\ (prev_result.kind = "list") = (result.kind = "list")
           /\ (prev_result.kind = "None") = (result.kind = "None")

\* the normalized lists of the argument are complete and admit no stable matching
NoStableMatching ==
    /\ is_valid(preferences)
    /\ Ranked(Normalized(preferences))
    /\ ~AdmitsStableMatching(Normalized(preferences))

\* C4: a call with a valid matrix whose normalized lists admit no stable
\* matching ends, whatever the shuffles, and it ends by returning None.
C4_NoStableReturnsNone ==
    (pc = "start" /\ NoStableMatching) ~> (pc = "done" /\ result.kind = "None")

C4_Witness ==
    /\ preferences = paper_no_matching_4
    /\ pc = "done"
    /\ result.kind = "None"

\* the returned list is a stable matching of the six participants of
\* paper_matching_6, read as position + 1 -> entry
PaperMatchingStable ==
    /\ Returned
    /\ DOMAIN result.list = 0..5
    /\ LET M == [x \in 1..6 |-> result.list[x - 1]]
       IN  /\ \A x \in 1..6 : M[x] \in (1..6) \ {x} /\ M[M[x]] = x
           /\ StableMatching(paper_matching_6, M)

\* C5: for the six participants of Irving's paper the call ends, whatever the
\* shuffles, by returning a list, and the list is a stable matching.
C5_PaperMatchingFound ==
    (pc = "start" /\ preferences = paper_matching_6) ~> PaperMatchingStable

C5_Witness ==
    /\ preferences = paper_matching_6
    /\ Returned

\* C6: the returned list is symmetric when its entries are read as positions:
\* an entry y other than -1 at position x is a position, and its entry is x.
C6_ListSymmetric ==
    Returned =>
        \A x \in DOMAIN result.list :
            result.list[x] # -1 =>
                /\ result.list[x] \in DOMAIN result.list
                /\ result.list[result.list[x]] = x

\* C7: for [[2],[1]] the returned list has 1 at position 0 and 0 at position 1.
C7_TwoParticipants ==
    (preferences = custom_matching_2 /\ pc = "done") =>
        /\ result.kind = "list"
        /\ result.list[0] = 1
        /\ result.list[1] = 0

\* C8: a valid matrix with an odd number n of rows gets exactly one added
\* person n + 1, and a returned list then has n entries, exactly one of them
\* -1, at the position of the participant who held the added person's
\* proposal, and none of them n + 1; with an even n nobody is added and no
\* entry is -1.
C8_OddCount ==
    (pc # "start" /\ is_valid(preferences)) =>
        LET n == Len(preferences)
            odd == n % 2 = 1
        IN  /\ person_added = odd
            /\ Len(valid_preferences) = (IF odd THEN n + 1 ELSE n)
            /\ Returned =>
                  /\ DOMAIN result.list = 0..(n - 1)
                  /\ Cardinality(Unmatched(result.list)) = (IF odd THEN 1 ELSE 0)
                  /\ \A x \in DOMAIN result.list : result.list[x] # n + 1
                  /\ odd => result.list[holds[n + 1] - 1] = -1

C8_Witness ==
    /\ Returned
    /\ Len(preferences) = 5

\* what C9 calls invalid
InvalidAsClaimed(matrix) ==
    LET n == Len(matrix)
    IN  \/ n <= 1
        \/ \E i \in 1..n : Len(matrix[i]) > n - 1
        \/ \E i \in 1..n : \E k \in 1..Len(matrix[i]) : matrix[i][k] \notin 1..n
        \/ \E i \in 1..n : \E k \in 1..Len(matrix[i]) : matrix[i][k] = i

\* no phase has run and nothing of a result exists
NothingRan ==
    /\ valid_preferences = <<>>
    /\ ranks = <<>>
    /\ reduced_preferences = <<>>
    /\ curr_cycle = <<>>
    /\ holds = <<>>
    /\ curr_holds = <<>>
    /\ proposed_set = {}
    /\ result.list = <<>>

\* C9: the matrix is reported invalid exactly when it has at most one row, a
\* row of more than n - 1 entries, an entry outside 1..n or an entry equal to
\* its row's participant; the call then returns None and no phase has run.
C9_InvalidExactlyWhen ==
    pc # "start" =>
        /\ (result = ReturnNone("invalid")) = InvalidAsClaimed(preferences)
        /\ InvalidAsClaimed(preferences) => (pc = "done" /\ NothingRan)

C9_Witness ==
    /\ pc = "done"
    /\ result = ReturnNone("invalid")
    /\ Len(preferences) = 3
    /\ \E i \in 1..3 : \E k \in 1..Len(preferences[i]) : preferences[i][k] = i

\* C10: every row of the normalized matrix of an accepted input lists every
\* other participant exactly once and not its own, N - 1 entries with N even.
C10_RowsComplete ==
    (pc # "start" /\ is_valid(preferences)) =>
        LET N == Len(valid_preferences)
        IN  /\ N % 2 = 0
            /\ \A i \in 1..N :
                  /\ Len(valid_preferences[i]) = N - 1
                  /\ Range(valid_preferences[i]) = (1..N) \ {i}

\* ------------------------------------------------------------------ outcomes

\* what the caller of stable_roommates gets back: None, a list, or an
\* exception; the reason a None was returned for is not part of it
returned_value(r) == [kind |-> r.kind, list |-> r.list]

\* every row of the matrix lists every other participant exactly once
StrictLists(matrix) ==
    /\ Ranked(matrix)
    /\ \A p \in 1..Len(matrix) : Len(matrix[p]) = Len(matrix) - 1

\* C11: the value returned for a valid matrix whose normalized lists admit no
\* stable matching differs from the value returned for an invalid matrix.
C11_NoMatchingDistinctFromInvalid ==
    (pc = "done" /\ NoStableMatching /\ result.kind # "error")
        => returned_value(result) # returned_value(ReturnNone("invalid"))

\* C12: on a valid matrix with strict complete normalized lists, no call ends
\* because verify_matching or verify_stability rejected the holds.
C12_VerificationNeverFails ==
    (pc = "done" /\ is_valid(preferences) /\ StrictLists(Normalized(preferences)))
        => /\ result # ReturnNone("not valid")
           /\ result # ReturnNone("not stable")

\* ------------------------------------------------------------------ combiner claims

\* the main block has built its output
MainDone == main_pc \in {"print", "printed"}

\* the participants the stable result leaves unmatched
StableUnmatched == {i \in DOMAIN stable_result : stable_result[i] = -1}

\* the weight of the edge between u and v in the original graph
WeightOf(u, v) ==
    LET g == input_pair_research.undirected_graph
        k == CHOOSE k \in 1..Len(g) : {g[k][1], g[k][2]} = {u, v}
    IN  g[k][3]

\* C13: when the stable result is not fully stable, the final matching keeps
\* the partner of everyone the stable result matched and gives everyone else
\* the entry of the matching of the adjusted graph, which is the recorded
\* processed result.
C13_FinalIsUnion ==
    (MainDone /\ ~is_fully_stable) =>
        /\ DOMAIN output_dict.matching = DOMAIN stable_result
        /\ output_dict.mwm_result_processed = mwm_result
        /\ \A i \in DOMAIN stable_result :
              /\ stable_result[i] # -1 => output_dict.matching[i] = stable_result[i]
              /\ stable_result[i] = -1 => output_dict.matching[i] = mwm_result[i]

\* somebody keeps a stable partner and somebody else gets one from the fallback
C13_Witness ==
    /\ MainDone
    /\ ~is_fully_stable
    /\ \E i, j \in DOMAIN stable_result :
          /\ stable_result[i] # -1
          /\ stable_result[j] = -1
          /\ output_dict.matching[j] # -1

\* C14: when the stable result leaves nobody unmatched, the final matching is
\* the stable result, the matching of the original graph is recorded, no
\* adjusted graph is built and the processed result stays empty.
C14_FullyStableIsFinal ==
    (MainDone /\ StableUnmatched = {}) =>
        /\ output_dict.matching = stable_result
        /\ output_dict.mwm_result_original \in
              maxWeightMatching(input_pair_research.undirected_graph,
                                input_pair_research.n)
        /\ unpaired_undirected_graph = <<>>
        /\ mwm_result = <<>>
        /\ output_dict.mwm_result_processed = <<>>

C14_Witness ==
    /\ main_pc = "printed"
    /\ StableUnmatched = {}
    /\ input_pair_research.n = 6
    /\ output_dict.mwm_result_original # stable_result

\* C15 as stated: when the stable result leaves exactly 2 and 5 unmatched, the
\* final matching pairs 2 with 5, whatever the weights of the graph.
C15_PairsTwoAndFive ==
    (MainDone /\ StableUnmatched = {2, 5}) =>
        /\ output_dict.matching[2] = 5
        /\ output_dict.matching[5] = 2

\* C15 amended: when the stable result leaves exactly 2 and 5 unmatched and
\* the edge between 2 and 5 has a positive weight, the final matching pairs 2
\* with 5.
C15_PairsTwoAndFiveIfPositive ==
    (MainDone /\ StableUnmatched = {2, 5} /\ WeightOf(2, 5) > 0) =>
        /\ output_dict.matching[2] = 5
        /\ output_dict.matching[5] = 2

C15_Witness ==
    /\ main_pc = "printed"
    /\ StableUnmatched = {2, 5}
    /\ WeightOf(2, 5) > 0
    /\ WeightOf(2, 3) >= WeightOf(2, 5)
    /\ output_dict.matching[2] = 5

\* ------------------------------------------------------------------ phase_1 claims

\* the proposer's next proposal will be accepted by somebody who holds pe
RejectsHold ==
    /\ CanPropose
    /\ Accepts(NextProposee)
    /\ holds[NextProposee] # None

\* C16: on strict complete lists, a participant whose hold is replaced is the
\* next proposer of the same chain, also when the accepted proposal went to
\* the last entry of the proposer's list; and a chain ends only with a
\* proposal accepted by somebody who held no one or with a proposer whom
\* every entry of its list has rejected.
C16_RejectedProposesNext ==
    [][(pc = "chain" /\ StrictLists(valid_preferences)) =>
          /\ RejectsHold => (pc' = "chain" /\ proposer' = holds[NextProposee])
          /\ pc' = "for" =>
                \/ CanPropose /\ Accepts(NextProposee) /\ holds[NextProposee] = None
                \/ ~CanPropose]_vars

\* y takes x by the rule of line 190, read off the rank table phase_1 is given
TakesByRank(y, x) ==
    IF holds[y] = None THEN TRUE
    ELSE ranks[y][x] < ranks[y][holds[y]]

\* a step of phase_1 in which the proposer has proposed
Proposed == curr_holds'[proposer] = curr_holds[proposer] + 1

\* C17: in every phase_1 call, the proposer proposes to the entries of its
\* list front to back, one entry per proposal; the proposee holds the
\* proposer afterwards exactly when it held no one or ranks the proposer
\* strictly better than its hold; and a hold, once set, is never cleared and
\* only replaced by somebody its holder ranks strictly better.
C17_AcceptanceRule ==
    [][pc = "chain" =>
          /\ \A p \in DOMAIN curr_holds :
                /\ curr_holds'[p] = curr_holds[p] \/ (p = proposer /\ Proposed)
          /\ Proposed =>
                /\ proposee' = phase_1_preferences[proposer][curr_holds[proposer] + 1]
                /\ holds' = IF TakesByRank(proposee', proposer)
                            THEN [holds EXCEPT ![proposee'] = proposer]
                            ELSE holds
          /\ \A y \in DOMAIN holds :
                IF holds'[y] = holds[y] THEN TRUE
                ELSE IF holds[y] = None THEN holds'[y] # None
                ELSE /\ holds'[y] # None
                     /\ ranks[y][holds'[y]] < ranks[y][holds[y]]]_vars

\* a chain goes on with a participant whose holder has just taken somebody
\* it ranks better
C17_Witness ==
    /\ pc = "chain"
    /\ proposee # Unbound
    /\ proposer = proposee_hold
    /\ holds[proposee] # proposer
    /\ proposer \in DOMAIN ranks[proposee]
    /\ holds[proposee] \in DOMAIN ranks[proposee]
    /\ ranks[proposee][holds[proposee]] < ranks[proposee][proposer]

\* ------------------------------------------------------------------ phase_1_reduce claims

\* the first Phase 1 has ended with everybody holding a proposal and
\* phase_1_reduce has returned
FirstReduced == pc = "reduced"

\* C18: after a first Phase 1 in which everybody holds a proposal, in the
\* lists of phase_1_reduce the hold of y is the last entry of y's list and y
\* is the first entry of its hold's list, b is on a's list exactly when a is
\* on b's, and no list is empty.
C18_ReducedTable ==
    FirstReduced =>
        /\ \A y \in DOMAIN holds :
              LET x == holds[y]
              IN  /\ Len(reduced_preferences[y]) > 0
                  /\ reduced_preferences[y][Len(reduced_preferences[y])] = x
                  /\ Len(reduced_preferences[x]) > 0
                  /\ reduced_preferences[x][1] = y
        /\ \A a, b \in DOMAIN reduced_preferences :
              (b \in Range(reduced_preferences[a])) = (a \in Range(reduced_preferences[b]))

\* a reduction that has removed entries and left lists of several entries
C18_Witness ==
    /\ FirstReduced
    /\ Len(preferences) = 6
    /\ \E a \in DOMAIN reduced_preferences : Len(reduced_preferences[a]) > 1
    /\ \E a \in DOMAIN reduced_preferences :
          Len(reduced_preferences[a]) < Len(valid_preferences[a])


\* ------------------------------------------------------------------ the cycle of size 3

\* stable_roommates has returned None at line 106: the cycle found right
\* after the Phase-1 reduction has length 3
RejectedForCycleOf3 == pc = "done" /\ result = ReturnNone("cycle of 3")

\* C19: when stable_roommates returns None because the cycle found right
\* after the Phase-1 reduction has length 3, the instance has no stable
\* matching.
C19_CycleOf3MeansNoMatching ==
    (RejectedForCycleOf3 /\ StrictLists(valid_preferences))
        => ~AdmitsStableMatching(valid_preferences)


\* ------------------------------------------------------------------ a pass of phase_2_reduce

\* line 324 has returned: the phase_1 call of a pass over curr_cycle is over;
\* reduced_preferences are still the lists the pass began with and p1_holds
\* the holds before the pass
PassRerunOver == phase_1_returns /\ curr_cycle # <<>>

\* p_i, q_i and p_(i+1) of the cycle of the pass (lines 284-293)
p_of(i) == curr_cycle[i]
q_of(i) == reduced_preferences[p_of(i)][2]
p_next(i) == reduced_preferences[q_of(i)][Len(reduced_preferences[q_of(i)])]
qs == {q_of(i) : i \in DOMAIN curr_cycle}

\* C20: in each pass of phase_2_reduce, after the phase_1 call every q_i
\* holds p_i, everybody who is no q_i holds whom it held before the pass,
\* everybody holds a proposal, and after the reduction that follows q_i and
\* p_(i+1) are off each other's lists.  Stated for the matrices that are
\* complete strict lists.
C20_PassChangesOnlyTheCycle ==
    [][(PassRerunOver /\ StrictLists(valid_preferences)) =>
          /\ \A i \in DOMAIN curr_cycle : holds[q_of(i)] = p_of(i)
          /\ \A person \in DOMAIN holds :
                person \notin qs => holds[person] = p1_holds[person]
          /\ \A person \in DOMAIN holds : holds[person] # None
          /\ \A i \in DOMAIN curr_cycle :
                /\ q_of(i) \notin Range(reduced_preferences'[p_next(i)])
                /\ p_next(i) \notin Range(reduced_preferences'[q_of(i)])]_vars


\* ------------------------------------------------------------------ a list that runs empty

\* phase_2_reduce has begun and the list of some participant is empty; lists
\* never grow again (phase_1_reduce only cuts and pops, lines 244 and 248)
EmptyListInPhase2 ==
    /\ curr_cycle # <<>>
    /\ \E person \in DOMAIN reduced_preferences :
          Len(reduced_preferences[person]) = 0

\* C21: when the list of a participant has run empty during Phase 2,
\* stable_roommates ends by returning None, neither a matching nor an
\* exception of an undefined lookup.
C21_EmptyListReturnsNone ==
    (pc = "done" /\ EmptyListInPhase2) => result.kind = "None"


\* ------------------------------------------------------------------ termination

\* the sum of the lengths of the lists of a table
RECURSIVE SumLen(_, _)
SumLen(table, k) ==
    IF k = 0 THEN 0 ELSE Len(table[k]) + SumLen(table, k - 1)

\* a step inside one phase_1 call: the call neither begins nor ends
InsidePhase1 ==
    /\ pc \in {"for", "chain"}
    /\ pc' \in {"for", "chain"}
    /\ DOMAIN curr_holds' = DOMAIN curr_holds
    /\ ~phase_1_returns

\* a pass of phase_2_reduce ends and phase_2_reduce goes on or returns
PassEnds ==
    /\ phase_1_returns
    /\ curr_cycle # <<>>
    /\ pc' # "done"

\* C22: stable_roommates ends on every valid input under every visiting
\* order: in a phase_1 call no position in a list decreases, a proposal
\* moves the proposer's position on by one, and every pass of
\* phase_2_reduce leaves some list shorter and none longer.
C22_Terminates ==
    /\ (pc = "start" /\ is_valid(preferences)) ~> (pc = "done")
    /\ [][InsidePhase1 =>
            /\ \A person \in DOMAIN curr_holds :
                  curr_holds'[person] >= curr_holds[person]
            /\ (proposee' # proposee \/ holds' # holds) =>
                  curr_holds'[proposer] = curr_holds[proposer] + 1]_vars
    /\ [][PassEnds =>
            /\ \A person \in DOMAIN reduced_preferences :
                  Len(reduced_preferences'[person]) <= Len(reduced_preferences[person])
            /\ \E person \in DOMAIN reduced_preferences :
                  Len(reduced_preferences'[person]) < Len(reduced_preferences[person])]_vars


\* ------------------------------------------------------------------ the combined matching

\* the fallback has run
FallbackRan == MainDone /\ ~is_fully_stable

\* C23: in the combiner the matching of the adjusted graph never pairs a
\* participant the stable result left unmatched with one that has a stable
\* partner, and the final matching is symmetric.
C23_FinalIsSymmetric ==
    FallbackRan =>
        /\ \A x \in StableUnmatched :
              mwm_result[x] # -1 => mwm_result[x] \in StableUnmatched
        /\ \A x \in DOMAIN output_dict.matching :
              LET y == output_dict.matching[x]
              IN  y # -1 => output_dict.matching[y] = x

\* the fallback has paired two participants in a population where the stable
\* result had paired others, and an edge between the two groups had a
\* positive weight
C23_Witness ==
    /\ main_pc = "printed"
    /\ ~is_fully_stable
    /\ \E x, y \in StableUnmatched : x # y /\ output_dict.matching[x] = y
    /\ \E x \in StableUnmatched, z \in DOMAIN stable_result :
          /\ stable_result[z] # -1
          /\ WeightOf(x, z) > 0


\* ------------------------------------------------------------------ adjust_undirected_graph

StabilityCall ==
    /\ \/ pc = "final"
       \/ pc = "reduced" /\ p1_halt
    /\ verify_matching(holds)

\* x and y are not partners in the matching and each ranks the other
\* strictly better than its partner
RanksBetter(x, y) ==
    /\ x # y
    /\ holds[x] # y
    /\ y \in DOMAIN ranks[x]
    /\ holds[x] \in DOMAIN ranks[x]
    /\ x \in DOMAIN ranks[y]
    /\ holds[y] \in DOMAIN ranks[y]
    /\ ranks[x][y] < ranks[x][holds[x]]
    /\ ranks[y][x] < ranks[y][holds[y]]

\* the rank table holds the rank of every other participant
CompleteRanks ==
    \A x \in DOMAIN ranks : (DOMAIN ranks) \ {x} \subseteq DOMAIN ranks[x]

\* C25: on a symmetric complete matching and a rank table of the
\* participants, verify_stability returns False exactly when two
\* participants that are not partners rank each other strictly better than
\* their partners, and True otherwise; it changes neither the matching nor
\* the rank table.
C25_StabilityVerdict ==
    [][(StabilityCall /\ CompleteRanks) =>
          /\ IF \E x, y \in DOMAIN holds : RanksBetter(x, y)
             THEN result' = ReturnNone("not stable")
             ELSE result'.kind = "list"
          /\ holds' = holds
          /\ ranks' = ranks]_vars

\* a matching of four participants that verify_stability has refused
C25_Witness ==
    /\ pc = "done"
    /\ Len(preferences) = 4
    /\ verify_matching(holds)
    /\ CompleteRanks
    /\ \E x, y \in DOMAIN holds : RanksBetter(x, y)
    /\ result = ReturnNone("not stable")


\* ------------------------------------------------------------------ the report

\* the report has ended: the file is written or the run has raised
ReportEnded == report_pc \in {"written", "raised"}

\* C26: the report drops nobody: whatever the final matching, the file is
\* written and every participant is in exactly one announced group, also
\* with several participants without partner and with no pair to join.
C26_NobodyDropped ==
    ReportEnded =>
        /\ report_pc = "written"
        /\ \A i \in DOMAIN report_matching :
              Cardinality({group \in output : i \in group}) = 1


\* ------------------------------------------------------------------ holds of a phase_1 call

\* a phase_1 call is running or has just returned
InPhase1 == pc \in {"for", "chain"}

\* C27: during every phase_1 call nobody holds itself, nobody is held by two
\* participants, and a participant is in proposed_set exactly when it holds
\* somebody; so when everybody holds a proposal the holds map the
\* participants one-to-one onto themselves and nobody onto itself.
C27_HoldsAreOneToOne ==
    InPhase1 =>
        /\ \A y \in DOMAIN holds : holds[y] # y
        /\ \A y, z \in DOMAIN holds :
              (y # z /\ holds[y] # None) => holds[y] # holds[z]
        /\ \A y \in DOMAIN holds : (y \in proposed_set) = (holds[y] # None)
        /\ (\A y \in DOMAIN holds : holds[y] # None) =>
              /\ {holds[y] : y \in DOMAIN holds} = DOMAIN holds
              /\ \A y \in DOMAIN holds : holds[y] # y

\* a phase_1 call of a pass of phase_2_reduce over six participants has ended
\* with everybody holding a proposal
C27_Witness ==
    /\ phase_1_returns
    /\ curr_cycle # <<>>
    /\ Len(valid_preferences) = 6
    /\ proposed_set = DOMAIN holds
    /\ \A y \in DOMAIN holds : holds[y] # None

====
